---- MODULE Spec2Model ----
(***************************************************************************)
(* Storage layer of the Academy vesting contract                           *)
(* (Contracts/contracts/academy/src/storage.rs).                           *)
(*                                                                         *)
(* The host store has two tiers, instance and persistent.  Each tier is a  *)
(* map from the keys it holds to their values; writes is the set of        *)
(* (tier, key) entries the call in progress has set.  Every function of    *)
(* AcademyStorage is an operator on the store; every public mutating       *)
(* function is an action.  A getter is a pure read and is used inside the  *)
(* formulas.                                                               *)
(***************************************************************************)
EXTENDS Integers, Sequences, FiniteSets, TLC

VARIABLES store, pre, last, counter_log, migrate_calls, budget

vars == <<store, pre, last, counter_log, migrate_calls, budget>>

(***************************************************************************)
(* Bounds of the exploration.                                              *)
(***************************************************************************)
MaxSteps == 3          \* operations per run of the whole layer
MaxIndexSteps == 5     \* operations per run of the schedule and index stores

(***************************************************************************)
(* The values the calls are made with: identities, schedule identifiers,   *)
(* schedule records (opaque to this layer), schema versions, and the       *)
(* values found under the legacy keys of an upgraded contract.             *)
(***************************************************************************)
Address == {"a1", "a2"}
ScheduleId == {3, 7}
Schedule == {"r1", "r2"}
Version == {0, 1, 2, 3}
LegacyAdmin == {"a1"}
LegacyToken == {"a2"}
LegacyGov == {"a1"}
LegacyCnt == {1}

(***************************************************************************)
(* Option<T>: None is the empty sequence, Some(x) is <<x>>.                *)
(***************************************************************************)
None == <<>>
Some(x) == <<x>>
is_some(o) == o # None
unwrap(o) == o[1]
unwrap_or(o, d) == IF o = None THEN d ELSE o[1]

(***************************************************************************)
(* Keys.  An AcademyDataKey is its variant tag followed by its parameters; *)
(* a raw Symbol key is tagged "Symbol".                                    *)
(***************************************************************************)
CONTRACT_VERSION == 2

KeyInit == <<"Init">>
KeyAdmin == <<"Admin">>
KeyToken == <<"Token">>
KeyGovernance == <<"Governance">>
KeyCounter == <<"Counter">>
KeySchedule(id) == <<"Schedule", id>>
\* Mutant: the user is left out of the key, so all users share one index.
KeyUserScheduleIds_shared(user) == <<"UserScheduleIds">>

KeyUserScheduleIds(user) == <<"UserScheduleIds", user>>
KeyActiveSchedules == <<"ActiveSchedules">>
Symbol(name) == <<"Symbol", name>>

AcademyDataKey ==
    {KeyInit, KeyAdmin, KeyToken, KeyGovernance, KeyCounter, KeyActiveSchedules}
        \cup {KeySchedule(id) : id \in ScheduleId}
        \cup {KeyUserScheduleIds(u) : u \in Address}

LegacyNames == {"admin", "token", "gov", "cnt"}
LegacyKeys == {Symbol(n) : n \in LegacyNames}

(***************************************************************************)
(* The host storage interface: env.storage().instance() / .persistent()    *)
(* with has, get and set.                                                  *)
(***************************************************************************)
EmptyTier == [k \in {} |-> None]

tier_has(tier, k) == k \in DOMAIN tier
tier_get(tier, k) == IF k \in DOMAIN tier THEN Some(tier[k]) ELSE None
tier_set(tier, k, v) ==
    [x \in DOMAIN tier \cup {k} |-> IF x = k THEN v ELSE tier[x]]

instance_has(s, k) == tier_has(s.instance, k)
instance_get(s, k) == tier_get(s.instance, k)
instance_set(s, k, v) ==
    [s EXCEPT !.instance = tier_set(@, k, v),
              !.writes = @ \cup {<<"instance", k>>}]
persistent_has(s, k) == tier_has(s.persistent, k)
persistent_get(s, k) == tier_get(s.persistent, k)
persistent_set(s, k, v) ==
    [s EXCEPT !.persistent = tier_set(@, k, v),
              !.writes = @ \cup {<<"persistent", k>>}]

(***************************************************************************)
(* Initialization                                                          *)
(***************************************************************************)
is_initialized(s) == instance_has(s, KeyInit)

\* Mutant: a counter that is already set is kept.
set_initialized_keeps_counter(s) ==
    IF instance_has(s, KeyCounter) THEN instance_set(s, KeyInit, TRUE)
    ELSE instance_set(instance_set(s, KeyInit, TRUE), KeyCounter, 0)

set_initialized(s) ==
    instance_set(instance_set(s, KeyInit, TRUE), KeyCounter, 0)

(***************************************************************************)
(* Version management                                                      *)
(***************************************************************************)
get_version(s) == unwrap_or(instance_get(s, Symbol("version")), 0)

set_version(s, version) == instance_set(s, Symbol("version"), version)

(***************************************************************************)
(* Admin, token and governance                                             *)
(***************************************************************************)
\* Mutant: the admin is stored in the persistent tier.
set_admin_persistent(s, admin) == persistent_set(s, KeyAdmin, admin)

set_admin(s, admin) == instance_set(s, KeyAdmin, admin)
get_admin(s) == instance_get(s, KeyAdmin)
set_token(s, token) == instance_set(s, KeyToken, token)
get_token(s) == instance_get(s, KeyToken)
set_governance(s, governance) == instance_set(s, KeyGovernance, governance)
get_governance(s) == instance_get(s, KeyGovernance)

(***************************************************************************)
(* Counter.  The counter is a u64; the runs explored here keep it far      *)
(* below u64::MAX, where current + 1 is the mathematical sum.              *)
(***************************************************************************)
get_counter(s) == unwrap_or(instance_get(s, KeyCounter), 0)

\* Mutant: the new value is returned but never stored.
increment_counter_not_stored(s) ==
    LET current == get_counter(s)
        next == current + 1
    IN  [store |-> s, ret |-> next]

\* Mutant: the value before the increment is returned.
increment_counter_returns_current(s) ==
    LET current == get_counter(s)
        next == current + 1
    IN  [store |-> instance_set(s, KeyCounter, next), ret |-> current]

increment_counter(s) ==
    LET current == get_counter(s)
        next == current + 1
    IN  [store |-> instance_set(s, KeyCounter, next), ret |-> next]

(***************************************************************************)
(* Schedule storage                                                        *)
(***************************************************************************)
\* Mutant: an existing record is kept instead of overwritten.
set_schedule_if_absent(s, schedule_id, schedule) ==
    IF persistent_has(s, KeySchedule(schedule_id)) THEN s
    ELSE persistent_set(s, KeySchedule(schedule_id), schedule)

set_schedule(s, schedule_id, schedule) ==
    persistent_set(s, KeySchedule(schedule_id), schedule)

get_schedule(s, schedule_id) == persistent_get(s, KeySchedule(schedule_id))

has_schedule(s, schedule_id) == persistent_has(s, KeySchedule(schedule_id))

(***************************************************************************)
(* User index                                                              *)
(***************************************************************************)
get_user_schedule_ids(s, user) ==
    unwrap_or(persistent_get(s, KeyUserScheduleIds(user)), <<>>)

\* Mutant: the new id is put in front.
add_schedule_to_user_index_prepend(s, user, schedule_id) ==
    LET key == KeyUserScheduleIds(user)
        schedule_ids == unwrap_or(persistent_get(s, key), <<>>)
    IN  persistent_set(s, key, <<schedule_id>> \o schedule_ids)

\* Mutant: the stored index is not loaded, the new id replaces it.
add_schedule_to_user_index_overwrites(s, user, schedule_id) ==
    persistent_set(s, KeyUserScheduleIds(user), <<schedule_id>>)

add_schedule_to_user_index(s, user, schedule_id) ==
    LET key == KeyUserScheduleIds(user)
        schedule_ids == unwrap_or(persistent_get(s, key), <<>>)
    IN  persistent_set(s, key, Append(schedule_ids, schedule_id))

RECURSIVE collect_schedules(_, _, _, _)
collect_schedules(s, schedule_ids, i, schedules) ==
    IF i > Len(schedule_ids) THEN schedules
    ELSE LET found == get_schedule(s, schedule_ids[i])
         IN  collect_schedules(s, schedule_ids, i + 1,
                 IF is_some(found) THEN Append(schedules, unwrap(found))
                 ELSE schedules)

\* Mutant: the loop ends at the first id without a record.
RECURSIVE collect_until_missing(_, _, _, _)
collect_until_missing(s, schedule_ids, i, schedules) ==
    IF i > Len(schedule_ids) THEN schedules
    ELSE LET found == get_schedule(s, schedule_ids[i])
         IN  IF is_some(found)
             THEN collect_until_missing(s, schedule_ids, i + 1,
                                        Append(schedules, unwrap(found)))
             ELSE schedules

get_user_schedules_stops_at_missing(s, user) ==
    collect_until_missing(s, get_user_schedule_ids(s, user), 1, <<>>)

get_user_schedules(s, user) ==
    collect_schedules(s, get_user_schedule_ids(s, user), 1, <<>>)

(***************************************************************************)
(* Active schedules index                                                  *)
(***************************************************************************)
get_active_schedule_ids(s) ==
    unwrap_or(persistent_get(s, KeyActiveSchedules), <<>>)

\* Mutant: nothing is added when the index does not exist yet.
add_to_active_index_requires_index(s, schedule_id) ==
    LET active == persistent_get(s, KeyActiveSchedules)
    IN  IF is_some(active)
        THEN persistent_set(s, KeyActiveSchedules,
                            Append(unwrap(active), schedule_id))
        ELSE s

add_to_active_index(s, schedule_id) ==
    LET active == unwrap_or(persistent_get(s, KeyActiveSchedules), <<>>)
    IN  persistent_set(s, KeyActiveSchedules, Append(active, schedule_id))

RECURSIVE rebuild_active(_, _, _, _)
rebuild_active(active, schedule_id, i, new_active) ==
    IF i > Len(active) THEN new_active
    ELSE rebuild_active(active, schedule_id, i + 1,
             IF active[i] # schedule_id THEN Append(new_active, active[i])
             ELSE new_active)

\* Mutant: the comparison is inverted, the other ids are dropped.
remove_from_active_index_inverted(s, schedule_id) ==
    LET active == unwrap_or(persistent_get(s, KeyActiveSchedules), <<>>)
        new_active == SelectSeq(active, LAMBDA id : id = schedule_id)
    IN  persistent_set(s, KeyActiveSchedules, new_active)

\* Mutant: the scan stops at the first match, later occurrences stay.
RECURSIVE remove_first(_, _, _, _)
remove_first(active, schedule_id, i, new_active) ==
    IF i > Len(active) THEN new_active
    ELSE IF active[i] = schedule_id
    THEN new_active \o SubSeq(active, i + 1, Len(active))
    ELSE remove_first(active, schedule_id, i + 1, Append(new_active, active[i]))

remove_from_active_index_first_only(s, schedule_id) ==
    LET active == unwrap_or(persistent_get(s, KeyActiveSchedules), <<>>)
        new_active == remove_first(active, schedule_id, 1, <<>>)
    IN  persistent_set(s, KeyActiveSchedules, new_active)

remove_from_active_index(s, schedule_id) ==
    LET active == unwrap_or(persistent_get(s, KeyActiveSchedules), <<>>)
        new_active == rebuild_active(active, schedule_id, 1, <<>>)
    IN  persistent_set(s, KeyActiveSchedules, new_active)

(***************************************************************************)
(* Migration support                                                       *)
(***************************************************************************)
\* Mutant: the current version still counts as needing migration.
needs_migration_inclusive(s) == get_version(s) <= CONTRACT_VERSION

needs_migration(s) == get_version(s) < CONTRACT_VERSION

\* Mutant: an absent legacy counter is migrated as 0.
migrate_from_legacy_defaults_counter(s) ==
    LET admin == persistent_get(s, Symbol("admin"))
        s1 == IF is_some(admin) THEN set_admin(s, unwrap(admin)) ELSE s
        m1 == IF is_some(admin) THEN 1 ELSE 0
        token == persistent_get(s1, Symbol("token"))
        s2 == IF is_some(token) THEN set_token(s1, unwrap(token)) ELSE s1
        m2 == IF is_some(token) THEN m1 + 1 ELSE m1
        gov == persistent_get(s2, Symbol("gov"))
        s3 == IF is_some(gov) THEN set_governance(s2, unwrap(gov)) ELSE s2
        m3 == IF is_some(gov) THEN m2 + 1 ELSE m2
        counter == persistent_get(s3, Symbol("cnt"))
        s4 == instance_set(s3, KeyCounter, unwrap_or(counter, 0))
        m4 == IF is_some(counter) THEN m3 + 1 ELSE m3
    IN  [store |-> s4, ret |-> m4]

\* Mutant: the legacy counter is counted but not copied.
migrate_from_legacy_counter_skipped(s) ==
    LET admin == persistent_get(s, Symbol("admin"))
        s1 == IF is_some(admin) THEN set_admin(s, unwrap(admin)) ELSE s
        m1 == IF is_some(admin) THEN 1 ELSE 0
        token == persistent_get(s1, Symbol("token"))
        s2 == IF is_some(token) THEN set_token(s1, unwrap(token)) ELSE s1
        m2 == IF is_some(token) THEN m1 + 1 ELSE m1
        gov == persistent_get(s2, Symbol("gov"))
        s3 == IF is_some(gov) THEN set_governance(s2, unwrap(gov)) ELSE s2
        m3 == IF is_some(gov) THEN m2 + 1 ELSE m2
        counter == persistent_get(s3, Symbol("cnt"))
        m4 == IF is_some(counter) THEN m3 + 1 ELSE m3
    IN  [store |-> s3, ret |-> m4]

\* Mutant: the migration moves the admin, removing the legacy key.
persistent_remove(s, k) ==
    [s EXCEPT !.persistent = [x \in (DOMAIN @) \ {k} |-> @[x]]]

migrate_from_legacy_moves_admin(s) ==
    LET admin == persistent_get(s, Symbol("admin"))
        s1 == IF is_some(admin)
              THEN persistent_remove(set_admin(s, unwrap(admin)), Symbol("admin"))
              ELSE s
        m1 == IF is_some(admin) THEN 1 ELSE 0
        token == persistent_get(s1, Symbol("token"))
        s2 == IF is_some(token) THEN set_token(s1, unwrap(token)) ELSE s1
        m2 == IF is_some(token) THEN m1 + 1 ELSE m1
        gov == persistent_get(s2, Symbol("gov"))
        s3 == IF is_some(gov) THEN set_governance(s2, unwrap(gov)) ELSE s2
        m3 == IF is_some(gov) THEN m2 + 1 ELSE m2
        counter == persistent_get(s3, Symbol("cnt"))
        s4 == IF is_some(counter)
              THEN instance_set(s3, KeyCounter, unwrap(counter)) ELSE s3
        m4 == IF is_some(counter) THEN m3 + 1 ELSE m3
    IN  [store |-> s4, ret |-> m4]

migrate_from_legacy(s) ==
    LET admin == persistent_get(s, Symbol("admin"))
        s1 == IF is_some(admin) THEN set_admin(s, unwrap(admin)) ELSE s
        m1 == IF is_some(admin) THEN 1 ELSE 0
        token == persistent_get(s1, Symbol("token"))
        s2 == IF is_some(token) THEN set_token(s1, unwrap(token)) ELSE s1
        m2 == IF is_some(token) THEN m1 + 1 ELSE m1
        gov == persistent_get(s2, Symbol("gov"))
        s3 == IF is_some(gov) THEN set_governance(s2, unwrap(gov)) ELSE s2
        m3 == IF is_some(gov) THEN m2 + 1 ELSE m2
        counter == persistent_get(s3, Symbol("cnt"))
        s4 == IF is_some(counter)
              THEN instance_set(s3, KeyCounter, unwrap(counter)) ELSE s3
        m4 == IF is_some(counter) THEN m3 + 1 ELSE m3
    IN  [store |-> s4, ret |-> m4]

\* Mutant: the legacy migration is gated on legacy data, not on the version.
migrate_storage_gated_on_legacy_data(s) ==
    LET current_version == get_version(s)
    IN  IF current_version = 0
        THEN [store |-> set_version(s, CONTRACT_VERSION), ret |-> 0]
        ELSE IF current_version = 1 \/ persistent_has(s, Symbol("admin"))
        THEN LET migrated == migrate_from_legacy(s)
             IN  [store |-> set_version(migrated.store, CONTRACT_VERSION),
                  ret |-> migrated.ret]
        ELSE [store |-> s, ret |-> 0]

\* Mutant: the version is not advanced after the legacy migration.
migrate_storage_version_kept(s) ==
    LET current_version == get_version(s)
    IN  IF current_version = 0
        THEN [store |-> set_version(s, CONTRACT_VERSION), ret |-> 0]
        ELSE IF current_version = 1
        THEN migrate_from_legacy(s)
        ELSE [store |-> s, ret |-> 0]

\* Mutant: version 0 is migrated like version 1.
migrate_storage_legacy_at_v0(s) ==
    LET current_version == get_version(s)
    IN  IF current_version <= 1
        THEN LET migrated == migrate_from_legacy(s)
             IN  [store |-> set_version(migrated.store, CONTRACT_VERSION),
                  ret |-> migrated.ret]
        ELSE [store |-> s, ret |-> 0]

\* Mutant: the legacy migration is not gated on version 1.
migrate_storage_ungated(s) ==
    LET current_version == get_version(s)
    IN  IF current_version = 0
        THEN [store |-> set_version(s, CONTRACT_VERSION), ret |-> 0]
        ELSE LET migrated == migrate_from_legacy(s)
             IN  [store |-> set_version(migrated.store, CONTRACT_VERSION),
                  ret |-> migrated.ret]

migrate_storage(s) ==
    LET current_version == get_version(s)
    IN  IF current_version = 0
        THEN [store |-> set_version(s, CONTRACT_VERSION), ret |-> 0]
        ELSE IF current_version = 1
        THEN LET migrated == migrate_from_legacy(s)
             IN  [store |-> set_version(migrated.store, CONTRACT_VERSION),
                  ret |-> migrated.ret]
        ELSE [store |-> s, ret |-> 0]

has_legacy_data(s) ==
    \/ persistent_has(s, Symbol("admin"))
    \/ persistent_has(s, Symbol("token"))
    \/ persistent_has(s, Symbol("gov"))
    \/ persistent_has(s, Symbol("cnt"))

(***************************************************************************)
(* The state machine.  store is the contract's storage.  pre, last and     *)
(* counter_log record the run: the store before the last call, the last    *)
(* call with its arguments and return value, and, in call order, the       *)
(* calls that allocated an identifier (increment_counter, with the value   *)
(* returned) or wrote the Counter key (with the value written).            *)
(* migrate_calls is the number of migrate_storage calls that have returned *)
(* since deployment or the last set_version call.  budget is the number of *)
(* calls left in the run.                                                  *)
(*                                                                         *)
(* The contract is either freshly deployed (empty store) or upgraded from  *)
(* the legacy layout: the persistent tier then holds any of the four       *)
(* legacy keys and the version is 1.                                       *)
(***************************************************************************)
Put(tier, k, o) == IF is_some(o) THEN tier_set(tier, k, unwrap(o)) ELSE tier

LegacyStore(version, admin, token, gov, cnt) ==
    [instance |-> Put(EmptyTier, Symbol("version"), version),
     persistent |-> Put(Put(Put(Put(EmptyTier, Symbol("admin"), admin),
                                Symbol("token"), token),
                            Symbol("gov"), gov),
                        Symbol("cnt"), cnt),
     writes |-> {}]

Option(S) == {None} \cup {Some(x) : x \in S}

Init ==
    /\ \/ store = LegacyStore(None, None, None, None, None)
       \/ \E admin \in Option(LegacyAdmin), token \in Option(LegacyToken),
             gov \in Option(LegacyGov), cnt \in Option(LegacyCnt) :
               store = LegacyStore(Some(1), admin, token, gov, cnt)
    /\ pre = store
    /\ last = [op |-> "deploy", args |-> <<>>, ret |-> None]
    /\ counter_log = <<>>
    /\ migrate_calls = 0
    /\ budget = MaxSteps

(***************************************************************************)
(* One call of a public function: it runs to completion on the store as    *)
(* the previous call left it.                                              *)
(***************************************************************************)
Begin(s) == [s EXCEPT !.writes = {}]

Wrote(s, tier, k) == <<tier, k>> \in s.writes

Call(op, args, next, ret) ==
    /\ budget > 0
    /\ budget' = budget - 1
    /\ pre' = Begin(store)
    /\ store' = next
    /\ last' = [op |-> op, args |-> args, ret |-> ret]
    /\ counter_log' =
         IF op = "increment_counter"
         THEN Append(counter_log, [op |-> op, value |-> unwrap(ret)])
         ELSE IF Wrote(next, "instance", KeyCounter)
         THEN Append(counter_log, [op |-> op, value |-> get_counter(next)])
         ELSE counter_log
    /\ migrate_calls' =
         IF op = "migrate_storage" THEN migrate_calls + 1
         ELSE IF op = "set_version" THEN 0
         ELSE migrate_calls

SetInitialized == Call("set_initialized", <<>>, set_initialized(Begin(store)), None)

SetVersion ==
    \E version \in Version :
        Call("set_version", <<version>>, set_version(Begin(store), version), None)

SetAdmin ==
    \E admin \in Address :
        Call("set_admin", <<admin>>, set_admin(Begin(store), admin), None)

SetToken ==
    \E token \in Address :
        Call("set_token", <<token>>, set_token(Begin(store), token), None)

SetGovernance ==
    \E governance \in Address :
        Call("set_governance", <<governance>>,
             set_governance(Begin(store), governance), None)

IncrementCounter ==
    LET r == increment_counter(Begin(store))
    IN  Call("increment_counter", <<>>, r.store, Some(r.ret))

SetSchedule ==
    \E schedule_id \in ScheduleId, schedule \in Schedule :
        Call("set_schedule", <<schedule_id, schedule>>,
             set_schedule(Begin(store), schedule_id, schedule), None)

AddScheduleToUserIndex ==
    \E user \in Address, schedule_id \in ScheduleId :
        Call("add_schedule_to_user_index", <<user, schedule_id>>,
             add_schedule_to_user_index(Begin(store), user, schedule_id), None)

AddToActiveIndex ==
    \E schedule_id \in ScheduleId :
        Call("add_to_active_index", <<schedule_id>>,
             add_to_active_index(Begin(store), schedule_id), None)

RemoveFromActiveIndex ==
    \E schedule_id \in ScheduleId :
        Call("remove_from_active_index", <<schedule_id>>,
             remove_from_active_index(Begin(store), schedule_id), None)

MigrateStorage ==
    LET r == migrate_storage(Begin(store))
    IN  Call("migrate_storage", <<>>, r.store, Some(r.ret))

Next ==
    \/ SetInitialized
    \/ SetVersion
    \/ SetAdmin
    \/ SetToken
    \/ SetGovernance
    \/ IncrementCounter
    \/ SetSchedule
    \/ AddScheduleToUserIndex
    \/ AddToActiveIndex
    \/ RemoveFromActiveIndex
    \/ MigrateStorage

Spec == Init /\ [][Next]_vars

(***************************************************************************)
(* The schedule store and the two indexes on a freshly deployed contract:  *)
(* the operations of the persistent tier alone, in longer runs.            *)
(***************************************************************************)
InitIndex ==
    /\ store = [instance |-> EmptyTier, persistent |-> EmptyTier, writes |-> {}]
    /\ pre = store
    /\ last = [op |-> "deploy", args |-> <<>>, ret |-> None]
    /\ counter_log = <<>>
    /\ migrate_calls = 0
    /\ budget = MaxIndexSteps

NextIndex ==
    \/ SetSchedule
    \/ AddScheduleToUserIndex
    \/ AddToActiveIndex
    \/ RemoveFromActiveIndex

SpecIndex == InitIndex /\ [][NextIndex]_vars

(***************************************************************************)
(* Reading the run.                                                        *)
(***************************************************************************)
Called(op) == last.op = op

Tiers(s) == <<s.instance, s.persistent>>

LegacyPresent(s) == {n \in LegacyNames : persistent_has(s, Symbol(n))}

\* Each legacy key present in s0 is what the current-layout getter reads in s1.
LegacyCopied(s0, s1) ==
    /\ persistent_has(s0, Symbol("admin"))
         => get_admin(s1) = persistent_get(s0, Symbol("admin"))
    /\ persistent_has(s0, Symbol("token"))
         => get_token(s1) = persistent_get(s0, Symbol("token"))
    /\ persistent_has(s0, Symbol("gov"))
         => get_governance(s1) = persistent_get(s0, Symbol("gov"))
    /\ persistent_has(s0, Symbol("cnt"))
         => get_counter(s1) = unwrap(persistent_get(s0, Symbol("cnt")))

(***************************************************************************)
(* C1.  As claimed: whenever needs_migration holds before migrate_storage  *)
(* (version below 2), every legacy key present in the persistent tier is   *)
(* read back by its current-layout getter after the call.                  *)
(***************************************************************************)
C1_AnyOldVersion ==
    (Called("migrate_storage") /\ needs_migration(pre))
        => LegacyCopied(pre, store)

\* C1, amended: the same, for a call made at version 1 only; at version 0
\* migrate_storage copies nothing.
C1_LegacyPreserved ==
    (Called("migrate_storage") /\ get_version(pre) = 1)
        => LegacyCopied(pre, store)

C1_Witness ==
    /\ Called("migrate_storage")
    /\ get_version(pre) = 1
    /\ LegacyPresent(pre) = LegacyNames
    /\ get_admin(pre) = Some("a2")
    /\ get_admin(store) = Some("a1")
    /\ get_counter(pre) = 0
    /\ get_counter(store) = 1

(***************************************************************************)
(* C2.  A migrate_storage call at version 1 copies every present legacy    *)
(* key into its current-layout field, returns the number of legacy keys    *)
(* present, and leaves the version at 2.                                   *)
(***************************************************************************)
C2_MigrateFromV1 ==
    (Called("migrate_storage") /\ get_version(pre) = 1)
        => /\ LegacyCopied(pre, store)
           /\ last.ret = Some(Cardinality(LegacyPresent(pre)))
           /\ unwrap(last.ret) \in 0..4
           /\ get_version(store) = 2

C2_Witness ==
    /\ Called("migrate_storage")
    /\ get_version(pre) = 1
    /\ LegacyPresent(pre) = LegacyNames
    /\ get_token(pre) = Some("a1")
    /\ get_token(store) = Some("a2")
    /\ last.ret = Some(4)
    /\ get_version(store) = 2

(***************************************************************************)
(* C3.  A migrate_storage call at version 0 returns 0 and leaves the       *)
(* version at 2, whether or not legacy keys are present.                   *)
(***************************************************************************)
C3_MigrateFromV0 ==
    (Called("migrate_storage") /\ get_version(pre) = 0)
        => /\ last.ret = Some(0)
           /\ get_version(store) = 2

C3_Witness ==
    /\ Called("migrate_storage")
    /\ get_version(pre) = 0
    /\ has_legacy_data(pre)
    /\ last.ret = Some(0)
    /\ get_version(store) = 2

(***************************************************************************)
(* C4.  A migrate_storage call at version 2 or above returns 0, writes     *)
(* nothing and leaves both tiers of the store as they were.                *)
(***************************************************************************)
C4_MigrateIdempotent ==
    (Called("migrate_storage") /\ get_version(pre) >= 2)
        => /\ last.ret = Some(0)
           /\ Tiers(store) = Tiers(pre)
           /\ store.writes = {}

C4_Witness ==
    /\ Called("migrate_storage")
    /\ get_version(pre) = 2
    /\ persistent_has(pre, Symbol("admin"))
    /\ get_admin(pre) = Some("a2")
    /\ Tiers(store) = Tiers(pre)

(***************************************************************************)
(* C5.  needs_migration is true exactly when get_version is below 2, and   *)
(* it is false right after any migrate_storage call.                       *)
(***************************************************************************)
C5_NeedsMigration ==
    /\ needs_migration(store) <=> get_version(store) < 2
    /\ Called("migrate_storage") => ~needs_migration(store)

C5_Witness ==
    /\ Called("migrate_storage")
    /\ needs_migration(pre)
    /\ ~needs_migration(store)

(***************************************************************************)
(* C6.  As claimed: get_counter never decreases under any operation, and   *)
(* no two increment_counter calls of a run return the same value.          *)
(***************************************************************************)
Allocations(from, to) ==
    {i \in from..to : counter_log[i].op = "increment_counter"}

C6_CounterMonotonic ==
    /\ get_counter(store) >= get_counter(pre)
    /\ \A i, j \in Allocations(1, Len(counter_log)) :
           i # j => counter_log[i].value # counter_log[j].value

\* A call that writes the Counter key without allocating: set_initialized,
\* and a migrate_storage that copies the legacy counter.
ResetsCounter ==
    /\ last.op \in {"set_initialized", "migrate_storage"}
    /\ Wrote(store, "instance", KeyCounter)

\* C6, amended: get_counter never decreases under any call other than
\* set_initialized and a migrate_storage that copies a legacy counter, and
\* between two such calls no two increment_counter calls return the same
\* value.
C6_MonotonicBetweenResets ==
    /\ ~ResetsCounter => get_counter(store) >= get_counter(pre)
    /\ \A i, j \in 1..Len(counter_log) :
           (i < j /\ Allocations(i, j) = i..j)
               => counter_log[i].value < counter_log[j].value

C6_Witness ==
    /\ Len(counter_log) = 3
    /\ counter_log[1] = [op |-> "migrate_storage", value |-> 1]
    /\ counter_log[2] = [op |-> "increment_counter", value |-> 2]
    /\ counter_log[3] = [op |-> "increment_counter", value |-> 3]
    /\ get_counter(store) = 3

(***************************************************************************)
(* C7.  increment_counter returns get_counter() + 1 and persists it; two   *)
(* calls in a row return values that differ by 1, and the first call       *)
(* after set_initialized returns 1.                                        *)
(***************************************************************************)
C7_IncrementCounter ==
    /\ Called("increment_counter")
         => /\ last.ret = Some(get_counter(pre) + 1)
            /\ get_counter(store) = unwrap(last.ret)
            /\ instance_get(store, KeyCounter) = last.ret
    /\ \A i \in 1..(Len(counter_log) - 1) :
           counter_log[i + 1].op = "increment_counter"
               => /\ counter_log[i].op = "increment_counter"
                    => counter_log[i + 1].value = counter_log[i].value + 1
                  /\ counter_log[i].op = "set_initialized"
                    => counter_log[i + 1].value = 1

C7_Witness ==
    /\ Called("increment_counter")
    /\ Len(counter_log) = 3
    /\ counter_log[1].op = "set_initialized"
    /\ counter_log[2] = [op |-> "increment_counter", value |-> 1]
    /\ counter_log[3] = [op |-> "increment_counter", value |-> 2]
    /\ get_counter(store) = 2

(***************************************************************************)
(* C8.  No call sets or changes any of the four legacy keys of the         *)
(* persistent tier, so has_legacy_data is the same after migrate_storage   *)
(* as before it.                                                           *)
(***************************************************************************)
C8_LegacyUntouched ==
    /\ \A k \in LegacyKeys :
           /\ persistent_get(store, k) = persistent_get(pre, k)
           /\ ~Wrote(store, "persistent", k)
    /\ Called("migrate_storage")
         => has_legacy_data(store) = has_legacy_data(pre)

C8_Witness ==
    /\ Called("migrate_storage")
    /\ get_version(pre) = 1
    /\ Cardinality(LegacyPresent(pre)) = 2
    /\ last.ret = Some(2)
    /\ LegacyPresent(store) = LegacyPresent(pre)
    /\ has_legacy_data(store)

(***************************************************************************)
(* C9.  No schedule exists at deployment; set_schedule(id, r) makes        *)
(* get_schedule(id) = r and has_schedule(id) true, also over an earlier    *)
(* record; every other call leaves get_schedule(id) as it was, so a        *)
(* schedule never written stays absent and one written stays present.      *)
(***************************************************************************)
C9_ScheduleRoundTrip ==
    \A id \in ScheduleId :
        /\ has_schedule(store, id) <=> is_some(get_schedule(store, id))
        /\ Called("deploy") => ~has_schedule(store, id)
        /\ IF Called("set_schedule") /\ last.args[1] = id
           THEN /\ get_schedule(store, id) = Some(last.args[2])
                /\ has_schedule(store, id)
           ELSE get_schedule(store, id) = get_schedule(pre, id)
        /\ has_schedule(pre, id) => has_schedule(store, id)

C9_Witness ==
    /\ Called("set_schedule")
    /\ last.args = <<3, "r2">>
    /\ get_schedule(pre, 3) = Some("r1")
    /\ get_schedule(store, 3) = Some("r2")
    /\ ~has_schedule(store, 7)

(***************************************************************************)
(* C10.  remove_from_active_index(id) leaves the active index equal to     *)
(* the previous one with every element equal to id deleted and the others  *)
(* kept in order.                                                          *)
(***************************************************************************)
Without(seq, id) == SelectSeq(seq, LAMBDA x : x # id)

C10_RemoveAllOccurrences ==
    Called("remove_from_active_index")
        => get_active_schedule_ids(store)
               = Without(get_active_schedule_ids(pre), last.args[1])

C10_Witness ==
    /\ Called("remove_from_active_index")
    /\ last.args = <<3>>
    /\ get_active_schedule_ids(pre) = <<3, 7, 3, 7>>
    /\ get_active_schedule_ids(store) = <<7, 7>>

(***************************************************************************)
(* C11.  remove_from_active_index(id) with id not in the active index      *)
(* leaves get_active_schedule_ids as it was, also when the index has never *)
(* been written.                                                           *)
(***************************************************************************)
Elems(seq) == {seq[i] : i \in 1..Len(seq)}

C11_RemoveAbsentId ==
    (/\ Called("remove_from_active_index")
     /\ last.args[1] \notin Elems(get_active_schedule_ids(pre)))
        => get_active_schedule_ids(store) = get_active_schedule_ids(pre)

C11_Witness ==
    /\ Called("remove_from_active_index")
    /\ last.args = <<3>>
    /\ get_active_schedule_ids(pre) = <<7, 7>>
    /\ get_active_schedule_ids(store) = <<7, 7>>

(***************************************************************************)
(* C12.  The user index of u is the sequence of ids added for u, in call   *)
(* order with duplicates kept: it is empty at deployment, a call           *)
(* add_schedule_to_user_index(u, id) appends id to it, and no other call   *)
(* changes it.                                                             *)
(***************************************************************************)
C12_UserIndexInsertionOrder ==
    \A u \in Address :
        /\ Called("deploy") => get_user_schedule_ids(store, u) = <<>>
        /\ IF Called("add_schedule_to_user_index") /\ last.args[1] = u
           THEN get_user_schedule_ids(store, u)
                    = Append(get_user_schedule_ids(pre, u), last.args[2])
           ELSE get_user_schedule_ids(store, u) = get_user_schedule_ids(pre, u)

C12_Witness ==
    /\ Called("add_schedule_to_user_index")
    /\ get_user_schedule_ids(store, "a1") = <<7, 3, 3>>
    /\ get_user_schedule_ids(store, "a2") = <<3, 7>>

(***************************************************************************)
(* C13.  get_user_schedules(u) is, in index order, the records of the ids  *)
(* of the user index of u that have a record; ids without one are skipped. *)
(***************************************************************************)
RecordsOf(s, ids) ==
    LET present == SelectSeq(ids, LAMBDA id : has_schedule(s, id))
    IN  [i \in 1..Len(present) |-> unwrap(get_schedule(s, present[i]))]

C13_UserSchedulesSkipDangling ==
    \A u \in Address :
        get_user_schedules(store, u)
            = RecordsOf(store, get_user_schedule_ids(store, u))

C13_Witness ==
    /\ get_user_schedule_ids(store, "a1") = <<7, 3, 7>>
    /\ ~has_schedule(store, 3)
    /\ get_schedule(store, 7) = Some("r2")
    /\ get_user_schedules(store, "a1") = <<"r2", "r2">>

(***************************************************************************)
(* C14.  A call changes the value read under no entry of the store other   *)
(* than the ones it is addressed to: set_schedule(i, r) only Schedule(i),  *)
(* add_schedule_to_user_index(u, id) only UserScheduleIds(u), the active   *)
(* index calls only ActiveSchedules, each scalar setter only its own key.  *)
(***************************************************************************)
InstanceKeys ==
    {KeyInit, KeyAdmin, KeyToken, KeyGovernance, KeyCounter, Symbol("version")}

PersistentKeys ==
    {KeyActiveSchedules} \cup {KeySchedule(id) : id \in ScheduleId}
        \cup {KeyUserScheduleIds(u) : u \in Address}

\* The entry (tier, k) reads the same in s0 and s1.
SameEntry(s0, s1, tier, k) ==
    IF tier = "instance" THEN instance_get(s1, k) = instance_get(s0, k)
    ELSE persistent_get(s1, k) = persistent_get(s0, k)

Addressed ==
    CASE Called("set_initialized") ->
             {<<"instance", KeyInit>>, <<"instance", KeyCounter>>}
      [] Called("set_version") -> {<<"instance", Symbol("version")>>}
      [] Called("set_admin") -> {<<"instance", KeyAdmin>>}
      [] Called("set_token") -> {<<"instance", KeyToken>>}
      [] Called("set_governance") -> {<<"instance", KeyGovernance>>}
      [] Called("increment_counter") -> {<<"instance", KeyCounter>>}
      [] Called("set_schedule") ->
             {<<"persistent", KeySchedule(last.args[1])>>}
      [] Called("add_schedule_to_user_index") ->
             {<<"persistent", KeyUserScheduleIds(last.args[1])>>}
      [] Called("add_to_active_index") -> {<<"persistent", KeyActiveSchedules>>}
      [] Called("remove_from_active_index") ->
             {<<"persistent", KeyActiveSchedules>>}
      [] Called("migrate_storage") ->
             {<<"instance", k>> :
                 k \in {Symbol("version"), KeyAdmin, KeyToken, KeyGovernance,
                        KeyCounter}}
      [] OTHER -> {}

C14_KeysNeverCollide ==
    /\ \A k \in DOMAIN store.instance \cup DOMAIN pre.instance :
           SameEntry(pre, store, "instance", k) \/ <<"instance", k>> \in Addressed
    /\ \A k \in DOMAIN store.persistent \cup DOMAIN pre.persistent :
           SameEntry(pre, store, "persistent", k)
               \/ <<"persistent", k>> \in Addressed
    /\ \A u \in Address :
           \/ get_user_schedule_ids(store, u) = get_user_schedule_ids(pre, u)
           \/ Called("add_schedule_to_user_index") /\ last.args[1] = u
    /\ \A id \in ScheduleId :
           \/ get_schedule(store, id) = get_schedule(pre, id)
           \/ Called("set_schedule") /\ last.args[1] = id
    /\ Called("add_schedule_to_user_index")
         => get_active_schedule_ids(store) = get_active_schedule_ids(pre)

C14_Witness ==
    /\ Called("add_schedule_to_user_index")
    /\ last.args = <<"a1", 3>>
    /\ get_user_schedule_ids(pre, "a2") = <<7>>
    /\ get_user_schedule_ids(store, "a2") = <<7>>
    /\ get_active_schedule_ids(store) = <<3>>
    /\ get_user_schedule_ids(store, "a1") = <<3>>

(***************************************************************************)
(* C15.  A migrate_storage call made after another one has returned, with  *)
(* no set_version call in between, writes none of admin, token, governance *)
(* and counter, whatever was done to those fields since.                   *)
(***************************************************************************)
MigratedFields == {KeyAdmin, KeyToken, KeyGovernance, KeyCounter}

C15_VersionGatesCopying ==
    (Called("migrate_storage") /\ migrate_calls >= 2)
        => \A k \in MigratedFields :
               /\ ~Wrote(store, "instance", k)
               /\ instance_get(store, k) = instance_get(pre, k)

C15_Witness ==
    /\ Called("migrate_storage")
    /\ migrate_calls = 2
    /\ persistent_get(store, Symbol("admin")) = Some("a1")
    /\ get_admin(pre) = Some("a2")
    /\ get_admin(store) = Some("a2")

(***************************************************************************)
(* C16.  is_initialized is false at deployment, true after set_initialized *)
(* and in every later state; every set_initialized call, a repeated one    *)
(* too, leaves get_counter at 0.                                           *)
(***************************************************************************)
C16_SetInitialized ==
    /\ Called("deploy") => ~is_initialized(store)
    /\ Called("set_initialized")
         => /\ is_initialized(store)
            /\ instance_get(store, KeyInit) = Some(TRUE)
            /\ get_counter(store) = 0
    /\ is_initialized(pre) => is_initialized(store)

C16_Witness ==
    /\ Called("set_initialized")
    /\ is_initialized(pre)
    /\ get_counter(pre) = 1
    /\ get_counter(store) = 0

(***************************************************************************)
(* C17.  A key that is absent reads as its default: version 0, counter 0,  *)
(* no admin, token or governance, empty user and active indexes; and the   *)
(* index calls on an absent index act as on the empty sequence.            *)
(***************************************************************************)
C17_AbsenceIsNotAnError ==
    /\ ~instance_has(store, Symbol("version")) => get_version(store) = 0
    /\ ~instance_has(store, KeyCounter) => get_counter(store) = 0
    /\ ~instance_has(store, KeyAdmin) => get_admin(store) = None
    /\ ~instance_has(store, KeyToken) => get_token(store) = None
    /\ ~instance_has(store, KeyGovernance) => get_governance(store) = None
    /\ ~persistent_has(store, KeyActiveSchedules)
         => get_active_schedule_ids(store) = <<>>
    /\ \A u \in Address :
           ~persistent_has(store, KeyUserScheduleIds(u))
               => /\ get_user_schedule_ids(store, u) = <<>>
                  /\ get_user_schedules(store, u) = <<>>
    /\ (/\ Called("add_schedule_to_user_index")
        /\ ~persistent_has(pre, KeyUserScheduleIds(last.args[1])))
         => get_user_schedule_ids(store, last.args[1]) = <<last.args[2]>>
    /\ (Called("add_to_active_index") /\ ~persistent_has(pre, KeyActiveSchedules))
         => get_active_schedule_ids(store) = <<last.args[1]>>
    /\ (/\ Called("remove_from_active_index")
        /\ ~persistent_has(pre, KeyActiveSchedules))
         => get_active_schedule_ids(store) = <<>>

C17_Witness ==
    /\ Called("add_to_active_index")
    /\ pre.instance = EmptyTier
    /\ pre.persistent = EmptyTier
    /\ get_active_schedule_ids(store) = <<7>>
    /\ get_user_schedule_ids(store, "a1") = <<>>
    /\ get_version(store) = 0

(***************************************************************************)
(* C18.  Init, Admin, Token, Governance, Counter and the version are set   *)
(* and held in the instance tier only; schedules, user indexes and the     *)
(* active index in the persistent tier only; migrate_storage copies the    *)
(* legacy values it finds in the persistent tier and sets instance entries *)
(* only.                                                                   *)
(***************************************************************************)
C18_TierPlacement ==
    /\ \A w \in store.writes :
           \/ w[1] = "instance" /\ w[2] \in InstanceKeys
           \/ w[1] = "persistent" /\ w[2] \in PersistentKeys
    /\ DOMAIN store.instance \subseteq InstanceKeys
    /\ DOMAIN store.persistent \subseteq PersistentKeys \cup LegacyKeys
    /\ Called("migrate_storage")
         => /\ \A w \in store.writes : w[1] = "instance"
            /\ store.persistent = pre.persistent
            /\ Wrote(store, "instance", KeyAdmin)
                 => instance_get(store, KeyAdmin)
                        = persistent_get(pre, Symbol("admin"))
            /\ Wrote(store, "instance", KeyToken)
                 => instance_get(store, KeyToken)
                        = persistent_get(pre, Symbol("token"))
            /\ Wrote(store, "instance", KeyGovernance)
                 => instance_get(store, KeyGovernance)
                        = persistent_get(pre, Symbol("gov"))
            /\ Wrote(store, "instance", KeyCounter)
                 => instance_get(store, KeyCounter)
                        = persistent_get(pre, Symbol("cnt"))

C18_Witness ==
    /\ Called("migrate_storage")
    /\ store.writes = {"instance"} \X (MigratedFields \cup {Symbol("version")})
    /\ has_schedule(store, 3)
    /\ is_initialized(store)

(***************************************************************************)
(* C19.  The user index only grows at its end: under every call its value  *)
(* before the call is a prefix of its value after.                         *)
(***************************************************************************)
IsPrefix(a, b) == Len(a) <= Len(b) /\ SubSeq(b, 1, Len(a)) = a

C19_UserIndexAppendOnly ==
    \A u \in Address :
        IsPrefix(get_user_schedule_ids(pre, u), get_user_schedule_ids(store, u))

C19_Witness ==
    /\ Called("add_schedule_to_user_index")
    /\ get_user_schedule_ids(pre, "a2") = <<3, 7>>
    /\ get_user_schedule_ids(store, "a2") = <<3, 7, 7>>

(***************************************************************************)
(* C20.  migrate_storage leaves the Init flag, every schedule, every user  *)
(* index and the active index as they were; at version 1 it leaves each of *)
(* admin, token, governance and counter whose legacy key is absent as it   *)
(* was; at version 0 it changes nothing but the version.                   *)
(***************************************************************************)
LegacyOf(k) ==
    CASE k = KeyAdmin -> Symbol("admin")
      [] k = KeyToken -> Symbol("token")
      [] k = KeyGovernance -> Symbol("gov")
      [] k = KeyCounter -> Symbol("cnt")

C20_MigrateFrame ==
    Called("migrate_storage")
        => /\ instance_get(store, KeyInit) = instance_get(pre, KeyInit)
           /\ \A k \in PersistentKeys :
                  persistent_get(store, k) = persistent_get(pre, k)
           /\ get_version(pre) = 1
                => \A k \in MigratedFields :
                       ~persistent_has(pre, LegacyOf(k))
                           => instance_get(store, k) = instance_get(pre, k)
           /\ get_version(pre) = 0
                => /\ store.persistent = pre.persistent
                   /\ \A k \in InstanceKeys \ {Symbol("version")} :
                          instance_get(store, k) = instance_get(pre, k)

C20_Witness ==
    /\ Called("migrate_storage")
    /\ get_version(pre) = 1
    /\ LegacyPresent(pre) = {"admin"}
    /\ get_counter(pre) = 1
    /\ get_counter(store) = 1
    /\ get_token(pre) = Some("a1")
    /\ get_token(store) = Some("a1")
    /\ get_admin(store) = Some("a1")

====
